---- MODULE Spec2Model ----
(***************************************************************************)
(* Model of grader.py: the essay grading pipeline (full_process), its      *)
(* helpers (validate_image_files, stream_extract_text, stream_rate_text,   *)
(* safe_save, save_history, load_history) and the UI event handlers        *)
(* (update_gallery, reset_ui) bound to per-session Gradio state.           *)
(*                                                                         *)
(* The event queue runs one full_process at a time, so the model follows   *)
(* the browser session whose run is current; NewSession replaces it by a   *)
(* freshly loaded page, whose gr.State values are copies of the values     *)
(* built by create_interface().                                            *)
(*                                                                         *)
(* Specifications:                                                         *)
(*   Spec          the application: runs, uploads, resets, page loads and  *)
(*                 the passing of time                                     *)
(*   SpecRun       the runs of one session over time                       *)
(*   SpecUi        the runs of one session and what the session displays   *)
(*   SpecStream    the streaming generators driven with arbitrary deltas   *)
(*   SpecValidate  validate_image_files called on arbitrary batches        *)
(*                                                                         *)
(* Text is a sequence of one-character strings; a streamed content delta   *)
(* is such a sequence, possibly empty.                                     *)
(***************************************************************************)
EXTENDS Integers, Sequences, FiniteSets, TLC

VARIABLES
    clock,           \* datetime.datetime.now(), in ticks
    fs,              \* files under texts/ and rates/: path -> file
    histFile,        \* history.json
    runs,            \* number of full_process runs started so far
    failures,        \* TRUE when some full_process run has ended in an error
    pc,              \* position of the full_process generator
    ui,              \* the eight output components of the session
    uploaded_files,  \* gr.State([]) of the session: the upload batch
    loc,             \* locals of the running full_process
    snaps,           \* kinds of the snapshots yielded by the run
    gw,              \* model gateway requests and streams of the run
    tKind,           \* stream harness: which generator is driven
    tReceived,       \* stream harness: content deltas received so far
    tYields,         \* stream harness: values yielded so far
    tFull,           \* stream harness: full_text / full_response
    tState,          \* stream harness: "open", "exhausted"
    tConsumer,       \* stream harness: the consumer's full_text / full_rate
    vFiles,          \* validation harness: the batch
    vResult          \* validation harness: outcome of validate_image_files

pipeVars == <<clock, fs, histFile, runs, failures, pc, ui, uploaded_files,
              loc, snaps, gw>>
streamVars == <<tKind, tReceived, tYields, tFull, tState, tConsumer>>
validVars == <<vFiles, vResult>>
vars == <<clock, fs, histFile, runs, failures, pc, ui, uploaded_files,
          loc, snaps, gw, tKind, tReceived, tYields, tFull, tState,
          tConsumer, vFiles, vResult>>

-----------------------------------------------------------------------------
(* Bounds *)

MaxRuns == 2          \* full_process runs started in one behaviour
MaxChunks == 1        \* chunks received on one stream of the pipeline
MaxDeltas == 4        \* chunks received in the stream harness
MaxBatch == 3         \* images in one batch of the validation harness
TicksPerSecond == 2   \* clock ticks in one second

\* Optional values: None is the empty tuple, Some(x) a one-element tuple.
None == <<>>
Some(x) == <<x>>

-----------------------------------------------------------------------------
(* Configuration and module constants *)

TEXTS_DIR == "texts"
RATES_DIR == "rates"
MAX_FILE_SIZE_MB == 5
ALLOWED_EXTENSIONS == {".jpg", ".jpeg", ".png"}
MaxNameLen == 50
DefaultTitle == <<"untitled">>
RateSuffix == <<"_rate">>

-----------------------------------------------------------------------------
(* Strings *)

Whitespace == {" ", "\n"}
Forbidden == {"\\", "/", "*", "?", ":", "\"", "<", ">", "|"}

Min(a, b) == IF a < b THEN a ELSE b

RECURSIVE LStrip(_)
LStrip(t) ==
    IF t # <<>> /\ Head(t) \in Whitespace THEN LStrip(Tail(t)) ELSE t

RECURSIVE RStrip(_)
RStrip(t) ==
    IF t # <<>> /\ t[Len(t)] \in Whitespace
    THEN RStrip(SubSeq(t, 1, Len(t) - 1)) ELSE t

\* str.strip()
Strip(t) == RStrip(LStrip(t))

\* str.lower() on a file suffix
Lower(x) ==
    CASE x = ".JPG" -> ".jpg"
      [] x = ".PNG" -> ".png"
      [] x = ".GIF" -> ".gif"
      [] OTHER -> x

RECURSIVE RemoveForbidden(_)
RemoveForbidden(t) ==
    IF t = <<>> THEN <<>>
    ELSE IF Head(t) \in Forbidden THEN RemoveForbidden(Tail(t))
    ELSE <<Head(t)>> \o RemoveForbidden(Tail(t))

\* sanitize_filename
sanitize_filename(title) ==
    LET sanitized == RemoveForbidden(Strip(title))
    IN  SubSeq(sanitized, 1, Min(MaxNameLen, Len(sanitized)))

\* position of the first "\n" of t, 0 when there is none
RECURSIVE FirstNewline(_, _)
FirstNewline(t, i) ==
    IF i > Len(t) THEN 0
    ELSE IF t[i] = "\n" THEN i
    ELSE FirstNewline(t, i + 1)

\* full_text.split("\n", 1), then title and content
SplitTitle(full_text) ==
    LET n == FirstNewline(full_text, 1)
        line0 == IF n = 0 THEN full_text ELSE SubSeq(full_text, 1, n - 1)
    IN  IF Strip(line0) = <<>> THEN DefaultTitle ELSE Strip(line0)

SplitContent(full_text) ==
    LET n == FirstNewline(full_text, 1)
    IN  IF n = 0 THEN <<>>
        ELSE Strip(SubSeq(full_text, n + 1, Len(full_text)))

-----------------------------------------------------------------------------
(* validate_image_files *)

\* The uploaded image files on disk: path -> existence and size in bytes.
MB == 1024 * 1024

ImagePaths ==
    { [stem |-> "a", suffix |-> ".jpg"],
      [stem |-> "b", suffix |-> ".JPG"],
      [stem |-> "c", suffix |-> ".gif"],
      [stem |-> "d", suffix |-> ".gif"],
      [stem |-> "e", suffix |-> ".png"],
      [stem |-> "f", suffix |-> ".jpeg"] }

ImageExists(p) == p.stem # "e"

ImageSize(p) ==
    CASE p.stem = "a" -> 2048
      [] p.stem = "b" -> MAX_FILE_SIZE_MB * MB
      [] p.stem = "f" -> MAX_FILE_SIZE_MB * MB + 1
      [] OTHER -> 2048

\* str(file_path) and file.name
PathStr(p) == p.stem \o p.suffix
FileName(p) == p.stem \o p.suffix

Ok == [kind |-> "ok", args |-> <<>>]
Err(kind, args) == [kind |-> kind, args |-> args]

\* the body of the for loop, for one file
ValidateFile(p) ==
    IF ~ImageExists(p) THEN Err("missing", <<PathStr(p)>>)
    ELSE IF Lower(p.suffix) \notin ALLOWED_EXTENSIONS
         THEN Err("bad_type", <<p.suffix>>)
    ELSE IF ImageSize(p) > MAX_FILE_SIZE_MB * 1024 * 1024
         THEN Err("too_big", <<FileName(p),
                               ToString((ImageSize(p) \div 1024) \div 1024)>>)
    ELSE Ok

RECURSIVE ValidateEach(_)
ValidateEach(files) ==
    IF files = <<>> THEN Ok
    ELSE IF ValidateFile(Head(files)) # Ok THEN ValidateFile(Head(files))
    ELSE ValidateEach(Tail(files))

validate_image_files(files) ==
    IF files = <<>> THEN Err("no_images", <<>>) ELSE ValidateEach(files)

-----------------------------------------------------------------------------
(* stream_extract_text / stream_rate_text: one iteration of the chunk loop *)

\* The faulty variant yields the chunk instead of the running total.
StreamStepYieldsDelta(full, yields, delta) ==
    IF delta # <<>>
    THEN [full |-> full \o delta, yields |-> Append(yields, delta)]
    ELSE [full |-> full, yields |-> yields]

StreamStep(full, yields, delta) ==
    IF delta # <<>>
    THEN [full |-> full \o delta, yields |-> Append(yields, full \o delta)]
    ELSE [full |-> full, yields |-> yields]

-----------------------------------------------------------------------------
(* Storage: safe_save, save_history, load_history *)

\* strftime("%Y%m%d"): the faulty variant drops the time of day.
TimestampDate(now) == now \div (TicksPerSecond * 86400)

\* strftime("%Y%m%d_%H%M%S") of datetime.datetime.now()
Timestamp(now) == now \div TicksPerSecond

\* strftime("%Y-%m-%d %H:%M") of datetime.datetime.now()
EntryTimestamp(now) == now \div (TicksPerSecond * 60)

SavePath(directory, filename, now) ==
    [dir |-> directory, name |-> sanitize_filename(filename),
     ts |-> Timestamp(now)]

\* A file and the safe_save call that wrote it; complete is FALSE when the
\* call raised after open(save_path, "w")
FileRec(content, directory, filename, now, run, complete) ==
    [content |-> content, directory |-> directory, filename |-> filename,
     at |-> now, run |-> run, complete |-> complete]

WriteFile(files, path, rec) ==
    [p \in DOMAIN files \cup {path} |-> IF p = path THEN rec ELSE files[p]]

\* The faulty variant returns the path without writing the file.
SafeSaveNoWrite(files, content, directory, filename, now, run) ==
    [fs |-> files, path |-> SavePath(directory, filename, now)]

\* safe_save returning normally
safe_save(files, content, directory, filename, now, run) ==
    [fs |-> WriteFile(files, SavePath(directory, filename, now),
                      FileRec(content, directory, filename, now, run, TRUE)),
     path |-> SavePath(directory, filename, now)]

\* safe_save raising inside the with block: open(save_path, "w") has
\* created or truncated the file, f.write did not complete
SafeSaveTruncated(files, directory, filename, now, run) ==
    WriteFile(files, SavePath(directory, filename, now),
              FileRec(<<>>, directory, filename, now, run, FALSE))

\* history.json: absent or malformed (valid = FALSE), or a JSON array
NoHistoryFile == [valid |-> FALSE, entries |-> <<>>]

load_history(file) == IF file.valid THEN file.entries ELSE <<>>

save_history(history) == [valid |-> TRUE, entries |-> history]

-----------------------------------------------------------------------------
(* The UI components and the handlers' outputs *)

Status(kind) == [kind |-> kind, args |-> <<>>]
ErrorStatus(e) == [kind |-> "error", args |-> <<e.kind>> \o e.args]

RatingHeader == <<"#">>
RatingPlaceholder == <<"#", "_">>

InitUi ==
    [process_status |-> Status("waiting"),
     image_gallery  |-> None,
     extracted_text |-> <<>>,
     rating_result  |-> RatingPlaceholder,
     download_text  |-> None,
     download_rate  |-> None,
     history_table  |-> <<>>,
     history_state  |-> load_history(NoHistoryFile)]

\* The faulty variant also clears the panes already displayed.
ErrorSnapshotClearing(u, e) ==
    [u EXCEPT !.process_status = ErrorStatus(e),
              !.extracted_text = <<>>,
              !.rating_result = RatingPlaceholder]

\* yield {process_status: f"**错误**: {str(e)}"}
ErrorSnapshot(u, e) == [u EXCEPT !.process_status = ErrorStatus(e)]

\* The faulty variant also resets the history outputs.
ResetUiWithHistory(u) ==
    [u EXCEPT !.image_gallery = None,
              !.extracted_text = <<>>,
              !.rating_result = RatingPlaceholder,
              !.download_text = None,
              !.download_rate = None,
              !.process_status = Status("waiting"),
              !.history_table = <<>>,
              !.history_state = <<>>]

\* reset_ui bound to the six outputs of next_btn.click
reset_ui(u) ==
    [u EXCEPT !.image_gallery = None,
              !.extracted_text = <<>>,
              !.rating_result = RatingPlaceholder,
              !.download_text = None,
              !.download_rate = None,
              !.process_status = Status("waiting")]

\* update_gallery bound to image_gallery and uploaded_files
update_gallery(u, files) == [u EXCEPT !.image_gallery = Some(files)]

-----------------------------------------------------------------------------
(* full_process *)

InitLoc ==
    [files |-> <<>>, history |-> <<>>, full_text |-> <<>>, title |-> <<>>,
     content |-> <<>>, full_rate |-> <<>>, text_path |-> None,
     rate_path |-> None, run |-> 0]

InitGw ==
    [extract_calls |-> 0, rate_calls |-> 0, ext |-> "none", rate |-> "none",
     total |-> <<>>, n |-> 0]

\* Deltas the model endpoint may send
ExtractDeltas == { <<>>, <<"a", "?", "\n", "b">> }
RateDeltas == { <<>>, <<"g">> }

\* Batches the user may upload
UploadBatches ==
    { <<[stem |-> "a", suffix |-> ".jpg"]>>,
      <<[stem |-> "b", suffix |-> ".JPG"], [stem |-> "c", suffix |-> ".gif"]>> }

GatewayError == Err("gateway", <<>>)
EncodeError == Err("encode", <<>>)
PromptMissing == Err("prompt_missing", <<>>)
StorageError == Err("storage", <<>>)

Terminal == {"Idle", "Done", "Failed"}

\* The faulty variant ignores the outcome of validation.
ProceedsAlways(r) == TRUE

\* validate_image_files returned without raising
Proceeds(r) == r = Ok

\* The faulty variant leaves the extraction loop after the first chunk.
LoopExitEarly(exhausted) == "Splitting"

\* for partial_text in text_gen: where control is after one step of the loop
LoopExit(exhausted) == IF exhausted THEN "Splitting" ELSE "Extracting"

\* The harness variables are not part of the application
HarnessIdle == UNCHANGED <<streamVars, validVars>>

\* except Exception as e: yield the error snapshot, the generator ends
Fail(e) ==
    /\ pc' = "Failed"
    /\ failures' = TRUE
    /\ ui' = ErrorSnapshot(ui, e)
    /\ snaps' = Append(snaps, "error")

\* start_btn.click: inputs uploaded_files and history_state are read
Start ==
    /\ pc \in Terminal
    /\ runs < MaxRuns
    /\ runs' = runs + 1
    /\ UNCHANGED failures
    /\ pc' = "Validating"
    /\ loc' = [InitLoc EXCEPT !.files = uploaded_files,
                              !.history = ui.history_state,
                              !.run = runs + 1]
    /\ snaps' = <<>>
    /\ gw' = InitGw
    /\ UNCHANGED <<clock, fs, histFile, ui, uploaded_files>>
    /\ HarnessIdle

Validate ==
    /\ pc = "Validating"
    /\ LET r == validate_image_files(loc.files)
       IN  IF Proceeds(r)
           THEN /\ pc' = "Extracting"
                /\ ui' = [ui EXCEPT !.process_status = Status("processing"),
                                    !.image_gallery = Some(loc.files)]
                /\ snaps' = Append(snaps, "processing")
                /\ UNCHANGED failures
           ELSE Fail(r)
    /\ UNCHANGED <<clock, fs, histFile, runs, uploaded_files, loc, gw>>
    /\ HarnessIdle

\* stream_extract_text up to the creation of the streamed response
ExtractCall ==
    /\ pc = "Extracting"
    /\ gw.ext = "none"
    /\ \/ /\ gw' = [gw EXCEPT !.extract_calls = @ + 1, !.ext = "open"]
          /\ UNCHANGED <<pc, ui, snaps, failures>>
       \/ /\ gw' = [gw EXCEPT !.extract_calls = @ + 1, !.ext = "aborted"]
          /\ Fail(GatewayError)
       \/ /\ gw' = [gw EXCEPT !.ext = "aborted"]
          /\ Fail(EncodeError)
    /\ UNCHANGED <<clock, fs, histFile, runs, uploaded_files, loc>>
    /\ HarnessIdle

\* one chunk of the extraction stream, consumed by full_process
ExtractChunk ==
    /\ pc = "Extracting"
    /\ gw.ext = "open"
    /\ gw.n < MaxChunks
    /\ \E d \in ExtractDeltas :
         LET r == StreamStep(gw.total, <<>>, d)
         IN  /\ gw' = [gw EXCEPT !.total = r.full, !.n = @ + 1]
             /\ pc' = LoopExit(FALSE)
             /\ IF r.yields # <<>>
                THEN /\ loc' = [loc EXCEPT !.full_text = r.yields[1]]
                     /\ ui' = [ui EXCEPT !.process_status = Status("extracting"),
                                         !.extracted_text = r.yields[1]]
                     /\ snaps' = Append(snaps, "extracting")
                ELSE UNCHANGED <<loc, ui, snaps>>
    /\ UNCHANGED <<clock, fs, histFile, runs, failures, uploaded_files>>
    /\ HarnessIdle

\* the extraction stream ends: the for loop is left
ExtractEnd ==
    /\ pc = "Extracting"
    /\ gw.ext = "open"
    /\ gw' = [gw EXCEPT !.ext = "exhausted", !.n = 0, !.total = <<>>]
    /\ pc' = LoopExit(TRUE)
    /\ UNCHANGED <<clock, fs, histFile, runs, failures, ui, uploaded_files,
                   loc, snaps>>
    /\ HarnessIdle

\* the extraction stream raises while being read
ExtractAbort ==
    /\ pc = "Extracting"
    /\ gw.ext = "open"
    /\ gw' = [gw EXCEPT !.ext = "aborted"]
    /\ Fail(GatewayError)
    /\ UNCHANGED <<clock, fs, histFile, runs, uploaded_files, loc>>
    /\ HarnessIdle

\* lines = full_text.split("\n", 1); title; content
Split ==
    /\ pc = "Splitting"
    /\ loc' = [loc EXCEPT !.title = SplitTitle(loc.full_text),
                          !.content = SplitContent(loc.full_text)]
    /\ pc' = "Grading"
    /\ UNCHANGED <<clock, fs, histFile, runs, failures, ui, uploaded_files,
                   snaps, gw>>
    /\ HarnessIdle

\* stream_rate_text up to the creation of the streamed response
RateCall ==
    /\ pc = "Grading"
    /\ gw.rate = "none"
    /\ \/ /\ gw' = [gw EXCEPT !.rate_calls = @ + 1, !.rate = "open"]
          /\ UNCHANGED <<pc, ui, snaps, failures>>
       \/ /\ gw' = [gw EXCEPT !.rate_calls = @ + 1, !.rate = "aborted"]
          /\ Fail(GatewayError)
       \/ /\ gw' = [gw EXCEPT !.rate = "aborted"]
          /\ Fail(PromptMissing)
    /\ UNCHANGED <<clock, fs, histFile, runs, uploaded_files, loc>>
    /\ HarnessIdle

\* one chunk of the grading stream, consumed by full_process
RateChunk ==
    /\ pc = "Grading"
    /\ gw.rate = "open"
    /\ gw.n < MaxChunks
    /\ \E d \in RateDeltas :
         LET r == StreamStep(gw.total, <<>>, d)
         IN  /\ gw' = [gw EXCEPT !.total = r.full, !.n = @ + 1]
             /\ IF r.yields # <<>>
                THEN /\ loc' = [loc EXCEPT !.full_rate = r.yields[1]]
                     /\ ui' = [ui EXCEPT !.process_status = Status("grading"),
                                         !.rating_result =
                                             RatingHeader \o r.yields[1]]
                     /\ snaps' = Append(snaps, "grading")
                ELSE UNCHANGED <<loc, ui, snaps>>
    /\ UNCHANGED <<clock, fs, histFile, runs, failures, pc, uploaded_files>>
    /\ HarnessIdle

\* the grading stream ends: the for loop is left
RateEnd ==
    /\ pc = "Grading"
    /\ gw.rate = "open"
    /\ gw' = [gw EXCEPT !.rate = "exhausted", !.n = 0, !.total = <<>>]
    /\ pc' = "SaveText"
    /\ UNCHANGED <<clock, fs, histFile, runs, failures, ui, uploaded_files,
                   loc, snaps>>
    /\ HarnessIdle

\* the grading stream raises while being read
RateAbort ==
    /\ pc = "Grading"
    /\ gw.rate = "open"
    /\ gw' = [gw EXCEPT !.rate = "aborted"]
    /\ Fail(GatewayError)
    /\ UNCHANGED <<clock, fs, histFile, runs, uploaded_files, loc>>
    /\ HarnessIdle

\* text_path = safe_save(content, TEXTS_DIR, title)
SaveText ==
    /\ pc = "SaveText"
    /\ \/ LET r == safe_save(fs, loc.content, TEXTS_DIR, loc.title,
                             clock, loc.run)
          IN  /\ fs' = r.fs
              /\ loc' = [loc EXCEPT !.text_path = Some(r.path)]
              /\ pc' = "SaveRate"
              /\ UNCHANGED <<ui, snaps, failures>>
       \/ /\ Fail(StorageError)
          /\ UNCHANGED <<fs, loc>>
       \/ /\ fs' = SafeSaveTruncated(fs, TEXTS_DIR, loc.title, clock, loc.run)
          /\ Fail(StorageError)
          /\ UNCHANGED loc
    /\ UNCHANGED <<clock, histFile, runs, uploaded_files, gw>>
    /\ HarnessIdle

\* rate_path = safe_save(full_rate, RATES_DIR, f"{title}_批改")
SaveRate ==
    /\ pc = "SaveRate"
    /\ \/ LET r == safe_save(fs, loc.full_rate, RATES_DIR,
                             loc.title \o RateSuffix, clock, loc.run)
          IN  /\ fs' = r.fs
              /\ loc' = [loc EXCEPT !.rate_path = Some(r.path)]
              /\ pc' = "SaveHistory"
              /\ UNCHANGED <<ui, snaps, failures>>
       \/ /\ Fail(StorageError)
          /\ UNCHANGED <<fs, loc>>
       \/ /\ fs' = SafeSaveTruncated(fs, RATES_DIR, loc.title \o RateSuffix,
                                     clock, loc.run)
          /\ Fail(StorageError)
          /\ UNCHANGED loc
    /\ UNCHANGED <<clock, histFile, runs, uploaded_files, gw>>
    /\ HarnessIdle

NewEntry(l, now) ==
    [title |-> l.title, timestamp |-> EntryTimestamp(now),
     text_path |-> l.text_path[1], rate_path |-> l.rate_path[1]]

\* updated_history = history + [new_entry]; save_history; the final yield
SaveHistory ==
    /\ pc = "SaveHistory"
    /\ LET updated_history == loc.history \o <<NewEntry(loc, clock)>>
       IN  \/ /\ histFile' = save_history(updated_history)
              /\ ui' = [ui EXCEPT !.process_status = Status("done"),
                                  !.download_text = loc.text_path,
                                  !.download_rate = loc.rate_path,
                                  !.history_table = updated_history,
                                  !.history_state = updated_history]
              /\ snaps' = Append(snaps, "done")
              /\ pc' = "Done"
              /\ UNCHANGED failures
           \/ /\ Fail(StorageError)
              /\ UNCHANGED histFile
           \/ /\ histFile' = NoHistoryFile
              /\ Fail(StorageError)
    /\ UNCHANGED <<clock, fs, runs, uploaded_files, loc, gw>>
    /\ HarnessIdle

\* upload_btn.upload
Upload ==
    /\ \E files \in UploadBatches :
         /\ ui' = update_gallery(ui, files)
         /\ uploaded_files' = files
    /\ UNCHANGED <<clock, fs, histFile, runs, failures, pc, loc, snaps, gw>>
    /\ HarnessIdle

\* next_btn.click
Reset ==
    /\ ui' = reset_ui(ui)
    /\ UNCHANGED <<clock, fs, histFile, runs, failures, pc, uploaded_files, loc, snaps, gw>>
    /\ HarnessIdle

\* The page is loaded again: the components and gr.State values of the new
\* session are those built by create_interface()
NewSession ==
    /\ pc \in {"Done", "Failed"}
    /\ pc' = "Idle"
    /\ ui' = InitUi
    /\ uploaded_files' = <<>>
    /\ loc' = InitLoc
    /\ snaps' = <<>>
    /\ gw' = InitGw
    /\ UNCHANGED <<clock, fs, histFile, runs, failures>>
    /\ HarnessIdle

\* Time passes; the clock is followed from the last tick of one second into
\* the next second
Tick ==
    /\ clock < TicksPerSecond
    /\ clock' = clock + 1
    /\ UNCHANGED <<fs, histFile, runs, failures, pc, ui, uploaded_files, loc,
                   snaps, gw>>
    /\ HarnessIdle

-----------------------------------------------------------------------------
(* The application *)

EmptyFs == [p \in {} |-> FileRec(<<>>, "", <<>>, 0, 0, FALSE)]

InitPipe ==
    /\ clock = TicksPerSecond - 1
    /\ fs = EmptyFs
    /\ histFile = NoHistoryFile
    /\ runs = 0
    /\ failures = FALSE
    /\ pc = "Idle"
    /\ ui = InitUi
    /\ uploaded_files = <<>>
    /\ loc = InitLoc
    /\ snaps = <<>>
    /\ gw = InitGw

InitStreamIdle ==
    /\ tKind = "none"
    /\ tReceived = <<>>
    /\ tYields = <<>>
    /\ tFull = <<>>
    /\ tState = "none"
    /\ tConsumer = <<>>

InitValidIdle ==
    /\ vFiles = <<>>
    /\ vResult = Status("none")

Init == InitPipe /\ InitStreamIdle /\ InitValidIdle

\* full_process, from the click of start_btn to its last snapshot
Pipeline ==
    \/ Start
    \/ Validate
    \/ ExtractCall
    \/ ExtractChunk
    \/ ExtractEnd
    \/ ExtractAbort
    \/ Split
    \/ RateCall
    \/ RateChunk
    \/ RateEnd
    \/ RateAbort
    \/ SaveText
    \/ SaveRate
    \/ SaveHistory

\* The application: runs, uploads, resets and page loads, over time
Next ==
    \/ Pipeline
    \/ Upload
    \/ Reset
    \/ NewSession
    \/ Tick

Spec == Init /\ [][Next]_vars

\* The runs of one session over time
NextRun ==
    \/ Pipeline
    \/ Upload
    \/ Tick

SpecRun == Init /\ [][NextRun]_vars

\* The runs of one session and what the session displays
NextUi ==
    \/ Pipeline
    \/ Upload
    \/ Reset

SpecUi == Init /\ [][NextUi]_vars

-----------------------------------------------------------------------------
(* Harness for the streaming generators: stream_extract_text and           *)
(* stream_rate_text driven with arbitrary deltas, consumed as full_process *)
(* consumes them (full_text = partial_text, full_rate = partial_rate).     *)

StreamDeltas == { <<>>, <<"a">>, <<"b", "c">> }

InitStream ==
    /\ tKind \in {"stream_extract_text", "stream_rate_text"}
    /\ tReceived = <<>>
    /\ tYields = <<>>
    /\ tFull = <<>>
    /\ tState = "open"
    /\ tConsumer = <<>>

\* for chunk in response: one chunk arrives
StreamChunk ==
    /\ tState = "open"
    /\ Len(tReceived) < MaxDeltas
    /\ \E d \in StreamDeltas :
         LET r == StreamStep(tFull, tYields, d)
         IN  /\ tReceived' = Append(tReceived, d)
             /\ tFull' = r.full
             /\ tYields' = r.yields
             /\ tConsumer' = IF Len(r.yields) > Len(tYields)
                             THEN r.yields[Len(r.yields)]
                             ELSE tConsumer
    /\ UNCHANGED <<tKind, tState>>
    /\ UNCHANGED <<pipeVars, validVars>>

\* the response ends: return full_text
StreamEnd ==
    /\ tState = "open"
    /\ tState' = "exhausted"
    /\ UNCHANGED <<tKind, tReceived, tYields, tFull, tConsumer>>
    /\ UNCHANGED <<pipeVars, validVars>>

NextStream ==
    \/ StreamChunk
    \/ StreamEnd

InitStreamHarness == InitPipe /\ InitStream /\ InitValidIdle

SpecStream == InitStreamHarness /\ [][NextStream]_vars

-----------------------------------------------------------------------------
(* Harness for validate_image_files: called on an arbitrary batch *)

RECURSIVE SeqsUpTo(_, _)
SeqsUpTo(S, n) ==
    IF n = 0 THEN { <<>> }
    ELSE SeqsUpTo(S, n - 1)
         \cup { Append(q, x) : q \in SeqsUpTo(S, n - 1), x \in S }

InitValid ==
    /\ vFiles \in SeqsUpTo(ImagePaths, MaxBatch)
    /\ vResult = Status("none")

ValidateCall ==
    /\ vResult.kind = "none"
    /\ vResult' = validate_image_files(vFiles)
    /\ UNCHANGED vFiles
    /\ UNCHANGED <<pipeVars, streamVars>>

NextValid == ValidateCall

InitValidHarness == InitPipe /\ InitStreamIdle /\ InitValid

SpecValidate == InitValidHarness /\ [][NextValid]_vars

-----------------------------------------------------------------------------
(* Properties *)

Last(q) == q[Len(q)]

FilesOfRun(r) == { p \in DOMAIN fs : fs[p].run = r }

\* C1: a run that ends in Failed has persisted nothing: no file written by
\* the run exists, and no history entry points to a file of the run.
NoPartialPersistence ==
    pc = "Failed" =>
        /\ FilesOfRun(loc.run) = {}
        /\ \A i \in DOMAIN histFile.entries :
              /\ histFile.entries[i].text_path \notin FilesOfRun(loc.run)
              /\ histFile.entries[i].rate_path \notin FilesOfRun(loc.run)

\* C2: while every run so far has succeeded, a run that completes leaves the
\* history file equal to the file before the run with exactly one entry
\* appended at the end, whichever session started the run.
HistoryAppendOnly ==
    [][ (~failures /\ pc = "SaveHistory" /\ pc' = "Done") =>
            /\ Len(histFile'.entries) = Len(load_history(histFile)) + 1
            /\ SubSeq(histFile'.entries, 1, Len(load_history(histFile)))
                 = load_history(histFile) ]_vars

\* The states of the run, as the pipeline names them
Stage(p) ==
    IF p \in {"SaveText", "SaveRate", "SaveHistory"} THEN "Persisting" ELSE p

StageOrder ==
    { <<"Idle", "Validating">>, <<"Done", "Validating">>,
      <<"Failed", "Validating">>, <<"Validating", "Extracting">>,
      <<"Extracting", "Splitting">>, <<"Splitting", "Grading">>,
      <<"Grading", "Persisting">>, <<"Persisting", "Done">>,
      <<"Validating", "Failed">>, <<"Extracting", "Failed">>,
      <<"Splitting", "Failed">>, <<"Grading", "Failed">>,
      <<"Persisting", "Failed">>, <<"Done", "Idle">>, <<"Failed", "Idle">> }

SnapRank(k) ==
    CASE k = "processing" -> 0
      [] k = "extracting" -> 1
      [] k = "grading" -> 2
      [] OTHER -> 3

SnapshotsInOrder ==
    /\ \A i, j \in DOMAIN snaps :
          i < j => SnapRank(snaps[i]) <= SnapRank(snaps[j])
    /\ \A i \in DOMAIN snaps :
          snaps[i] \in {"done", "error"} => i = Len(snaps)

GradingAfterExtraction ==
    (gw.rate_calls > 0 \/ gw.rate # "none" \/ "grading" \in {snaps[i] : i \in DOMAIN snaps})
        => gw.ext = "exhausted"

\* C3: within one run the grading request is issued only after the extraction
\* stream is exhausted, every extracting snapshot precedes every grading
\* snapshot, the done snapshot comes last, and the states are visited only in
\* the order Validating, Extracting, Splitting, Grading, Persisting, Done,
\* with Failed as the only other exit.
StrictlySequential ==
    /\ [](SnapshotsInOrder /\ GradingAfterExtraction)
    /\ [][ Stage(pc') # Stage(pc) => <<Stage(pc), Stage(pc')>> \in StageOrder ]_vars

StrictlySequentialWitness ==
    /\ pc = "Done"
    /\ snaps = <<"processing", "extracting", "grading", "done">>

\* C4: when validate_image_files fails the run goes directly to Failed: the
\* error is its only snapshot, no request is issued to the model gateway and
\* nothing is written to disk.
ValidationFailureIsDirect ==
    /\ [] ( (pc \notin {"Idle", "Validating"}
               /\ validate_image_files(loc.files) # Ok) =>
               /\ pc = "Failed"
               /\ snaps = <<"error">>
               /\ ui.process_status \in
                    { ErrorStatus(validate_image_files(loc.files)),
                      Status("waiting") }
               /\ gw = InitGw
               /\ FilesOfRun(loc.run) = {}
               /\ loc.text_path = None /\ loc.rate_path = None )
    /\ [][ (pc = "Validating" /\ pc' # pc
               /\ validate_image_files(loc.files) # Ok) =>
               /\ pc' = "Failed"
               /\ fs' = fs
               /\ histFile' = histFile
               /\ gw' = gw ]_vars

ValidationFailureWitness ==
    /\ pc = "Failed"
    /\ validate_image_files(loc.files).kind = "bad_type"

\* C5: every entry of the history file has text_path and rate_path pointing
\* to files that exist; when save_history is reached both safe_save calls
\* have returned and their files exist.
HistoryEntriesPointToFiles ==
    /\ \A i \in DOMAIN histFile.entries :
          /\ histFile.entries[i].text_path \in DOMAIN fs
          /\ histFile.entries[i].rate_path \in DOMAIN fs
    /\ pc = "SaveHistory" =>
          /\ loc.text_path # None /\ loc.text_path[1] \in DOMAIN fs
          /\ loc.rate_path # None /\ loc.rate_path[1] \in DOMAIN fs
          /\ fs[loc.text_path[1]].complete
          /\ fs[loc.rate_path[1]].complete

HistoryEntriesWitness ==
    /\ pc = "Done"
    /\ histFile.valid
    /\ Len(histFile.entries) = 2

RECURSIVE Concat(_)
Concat(ds) == IF ds = <<>> THEN <<>> ELSE Head(ds) \o Concat(Tail(ds))

NonEmpty(ds) == SelectSeq(ds, LAMBDA d : d # <<>>)

IsPrefix(a, b) == Len(a) <= Len(b) /\ SubSeq(b, 1, Len(a)) = a

\* C6 as stated: for deltas d1..dn the n-th yielded value is d1+...+dn, each
\* yielded value is a prefix of the next, and the final yielded value is the
\* full response.
CumulativeYieldPerDelta ==
    /\ \A n \in DOMAIN tReceived :
          /\ n <= Len(tYields)
          /\ tYields[n] = Concat(SubSeq(tReceived, 1, n))
    /\ \A k \in 1..(Len(tYields) - 1) : IsPrefix(tYields[k], tYields[k + 1])
    /\ (tState = "exhausted" /\ tReceived # <<>>) =>
          /\ tYields # <<>>
          /\ Last(tYields) = Concat(tReceived)

\* C6: empty deltas yield nothing; the k-th yielded value is the concatenation
\* of the first k non-empty deltas, each yielded value is a proper prefix of
\* the next, and the last yielded value, the value returned and the value
\* the consumer holds equal the concatenation of all deltas received.
CumulativeYieldNonEmpty ==
    /\ Len(tYields) = Len(NonEmpty(tReceived))
    /\ \A k \in DOMAIN tYields :
          tYields[k] = Concat(SubSeq(NonEmpty(tReceived), 1, k))
    /\ \A k \in 1..(Len(tYields) - 1) :
          /\ IsPrefix(tYields[k], tYields[k + 1])
          /\ tYields[k] # tYields[k + 1]
    /\ tFull = Concat(tReceived)
    /\ tConsumer = tFull
    /\ tYields # <<>> => Last(tYields) = tFull

CumulativeYieldWitness ==
    /\ tState = "exhausted"
    /\ Len(tYields) = 2
    /\ Len(tReceived) = 4
    /\ tReceived[2] = <<>>

\* C7: an error ends the run with exactly one error snapshot, the last of
\* the run, and that snapshot changes the status text only: every other
\* output keeps the value displayed before.
ErrorReplacesStatusOnly ==
    /\ [] ( /\ pc = "Failed" =>
                /\ snaps # <<>> /\ Last(snaps) = "error"
                /\ Cardinality({i \in DOMAIN snaps : snaps[i] = "error"}) = 1
                /\ ui.process_status.kind \in {"error", "waiting"}
            /\ pc # "Failed" => \A i \in DOMAIN snaps : snaps[i] # "error" )
    /\ [][ /\ (pc # "Failed" /\ pc' = "Failed") =>
                /\ ui'.process_status.kind = "error"
                /\ ui' = [ui EXCEPT !.process_status = ui'.process_status]
                /\ snaps' = Append(snaps, "error")
           /\ (pc = "Failed" /\ pc' = "Failed") => snaps' = snaps ]_vars

ErrorAfterDisplayWitness ==
    /\ pc = "Failed"
    /\ ui.process_status.kind = "error"
    /\ ui.extracted_text # <<>>
    /\ ui.rating_result # RatingPlaceholder
    /\ ui.download_text # None

\* C9 as stated: no file written by a safe_save call that returned is ever
\* changed afterwards.
FilesNeverOverwritten ==
    [][ \A p \in DOMAIN fs : fs[p].complete => fs'[p] = fs[p] ]_vars

\* C9: files are never removed, and a safe_save call replaces a file written
\* by an earlier call only when both calls have the same directory, the same
\* sanitized name and the same second; every other file is left as it was.
OverwriteOnlyOnSameName ==
    [][ \A p \in DOMAIN fs :
          /\ p \in DOMAIN fs'
          /\ fs'[p] # fs[p] =>
                /\ fs'[p].directory = fs[p].directory
                /\ sanitize_filename(fs'[p].filename)
                     = sanitize_filename(fs[p].filename)
                /\ fs'[p].at \div TicksPerSecond = fs[p].at \div TicksPerSecond
                /\ fs'[p].run # fs[p].run ]_vars

\* Two runs of one session have saved under the same paths
OverwriteWitness ==
    /\ pc = "Done"
    /\ Len(histFile.entries) = 2
    /\ histFile.entries[1].text_path = histFile.entries[2].text_path
    /\ histFile.entries[1].rate_path = histFile.entries[2].rate_path
    /\ fs[histFile.entries[2].text_path].run = 2

\* C10: reset_ui sets the six display outputs to their initial values and
\* leaves the history file, the history table and state, the stored upload
\* batch and the saved files unchanged.
ResetTouchesDisplayOnly ==
    [][ Reset =>
          /\ ui'.image_gallery = InitUi.image_gallery
          /\ ui'.extracted_text = InitUi.extracted_text
          /\ ui'.rating_result = InitUi.rating_result
          /\ ui'.download_text = InitUi.download_text
          /\ ui'.download_rate = InitUi.download_rate
          /\ ui'.process_status = InitUi.process_status
          /\ ui'.history_state = ui.history_state
          /\ ui'.history_table = ui.history_table
          /\ uploaded_files' = uploaded_files
          /\ histFile' = histFile
          /\ fs' = fs ]_vars

ResetAfterRunWitness ==
    /\ ui.process_status = Status("waiting")
    /\ ui.image_gallery = None
    /\ ui.download_text = None
    /\ ui.history_state # <<>>
    /\ uploaded_files # <<>>
    /\ histFile.entries # <<>>

\* The first path of the batch, in upload order, that validation rejects
Invalid(p) ==
    \/ ~ImageExists(p)
    \/ Lower(p.suffix) \notin ALLOWED_EXTENSIONS
    \/ ImageSize(p) > MAX_FILE_SIZE_MB * MB

FirstInvalid(files) ==
    LET i == CHOOSE k \in DOMAIN files :
                 /\ Invalid(files[k])
                 /\ \A m \in 1..(k - 1) : ~Invalid(files[m])
    IN  files[i]

Identifies(e, p) ==
    \E i \in DOMAIN e.args : e.args[i] \in {PathStr(p), FileName(p)}

\* C8: a batch with an invalid path fails at the first invalid path in upload
\* order, and the error identifies that file.
ValidationIdentifiesOffender ==
    (vResult.kind # "none" /\ \E k \in DOMAIN vFiles : Invalid(vFiles[k])) =>
        /\ vResult # Ok
        /\ Identifies(vResult, FirstInvalid(vFiles))

====
